---- MODULE Spec2Model ----
(***************************************************************************)
(* A model of scraper.py: the change-detection pipeline of the feed        *)
(* watcher.  One run of main() loads the state document, starts one        *)
(* process_site task per configured site under asyncio.gather, saves the   *)
(* document through a temporary file and generates the feeds.              *)
(*                                                                         *)
(* Text is modelled at the granularity the code works on:                  *)
(*   - a site name is a sequence of characters (slugify works on them);    *)
(*   - a page is the sequence of the nodes extract() selects; a node is    *)
(*     [text, tech]: its wording and the technical artefact (a long hex    *)
(*     id) it carries, "" when it carries none;                            *)
(*   - a timestamp is the number of the clock reading that produced it:    *)
(*     every call of now_utc() returns a later reading than the one        *)
(*     before, and isoformat() strings of one UTC offset order as the      *)
(*     readings do;                                                        *)
(*   - a CDATA payload is a sequence of tokens (see the CDATA section).    *)
(***************************************************************************)
EXTENDS Integers, Sequences, FiniteSets, TLC

(***************************************************************************)
(* Bounds of the model.                                                    *)
(***************************************************************************)
\* A run starts only if it can end before the clock reads more than MaxTime;
\* with crashes and a damaged state file in play, MaxTimeStore.
MaxTime == 20
MaxTimeStore == 15
\* json.dump writes the document in this many pieces.
NChunks == 2
\* Longest CDATA payload drawn, in tokens.
MaxLen == 3
\* Longest display text passed to added_paragraphs_html on its own, in parts
\* between blank lines.
MaxPars == 3
\* Runs followed when runs may lie far apart.
MaxRuns == 2
\* The length the update branch cuts the history to: the 2000 of lines
\* 571-572, scaled down so that runs of the model reach it.
ItemsCap == 2

(***************************************************************************)
(* Program constants.                                                      *)
(***************************************************************************)
\* cfg.get("feed_retention_days", 120), in clock readings.
feed_retention_days == 120

STATE_FILENAME == "state.json"

(***************************************************************************)
(* Configuration: cfg["sites"] of config.yml.                              *)
(***************************************************************************)
Sites == {"s1", "s2"}

SiteCfg ==
  [s1 |-> [name |-> <<"P", "1">>, bundesland |-> <<"N", "R", "W">>, url |-> "u1"],
   s2 |-> [name |-> <<"P", " ", "2">>, bundesland |-> <<"N", "R", "W">>, url |-> "u2"]]

(***************************************************************************)
(* slugify                                                                 *)
(***************************************************************************)
UpperChars == <<"A", "B", "C", "D", "E", "F", "G", "H", "I", "J", "K", "L", "M",
                "N", "O", "P", "Q", "R", "S", "T", "U", "V", "W", "X", "Y", "Z">>

LowerChars == <<"a", "b", "c", "d", "e", "f", "g", "h", "i", "j", "k", "l", "m",
                "n", "o", "p", "q", "r", "s", "t", "u", "v", "w", "x", "y", "z">>

Digits == {"0", "1", "2", "3", "4", "5", "6", "7", "8", "9"}

\* str.lower on one character
lower(c) ==
  IF \E i \in 1..Len(UpperChars) : UpperChars[i] = c
  THEN LowerChars[CHOOSE i \in 1..Len(UpperChars) : UpperChars[i] = c]
  ELSE c

\* the class [a-z0-9]
IsAlnum(c) == c \in Digits \/ (\E i \in 1..Len(LowerChars) : LowerChars[i] = c)

RECURSIVE SkipNonAlnum(_)
SkipNonAlnum(s) ==
  IF s = <<>> \/ IsAlnum(Head(s)) THEN s ELSE SkipNonAlnum(Tail(s))

\* re.sub(r"[^a-z0-9]+", "-", value)
RECURSIVE SubNonAlnumRuns(_)
SubNonAlnumRuns(s) ==
  IF s = <<>> THEN <<>>
  ELSE IF IsAlnum(Head(s)) THEN <<Head(s)>> \o SubNonAlnumRuns(Tail(s))
  ELSE <<"-">> \o SubNonAlnumRuns(SkipNonAlnum(Tail(s)))

RECURSIVE LStripDash(_)
LStripDash(s) ==
  IF s # <<>> /\ Head(s) = "-" THEN LStripDash(Tail(s)) ELSE s

RECURSIVE RStripDash(_)
RStripDash(s) ==
  IF s # <<>> /\ s[Len(s)] = "-" THEN RStripDash(SubSeq(s, 1, Len(s) - 1)) ELSE s

\* re.sub(r"-+", "-", value)
RECURSIVE CollapseDashes(_)
CollapseDashes(s) ==
  IF Len(s) < 2 THEN s
  ELSE IF s[1] = "-" /\ s[2] = "-" THEN CollapseDashes(Tail(s))
  ELSE <<Head(s)>> \o CollapseDashes(Tail(s))

slugify(value) ==
  LET lowered == [i \in 1..Len(value) |-> lower(value[i])]
  IN  CollapseDashes(RStripDash(LStripDash(SubNonAlnumRuns(lowered))))

(***************************************************************************)
(* Pages, normalisation, hashing                                           *)
(***************************************************************************)
\* The nodes the served pages are made of.
NodeA1 == [text |-> "A", tech |-> "id1"]
NodeA2 == [text |-> "A", tech |-> "id2"]
NodeB == [text |-> "B", tech |-> ""]

\* What each site's server may answer with: the same wording under two
\* session ids, and the page with one more paragraph.
Served ==
  [s1 |-> {<<NodeA1>>, <<NodeA2>>, <<NodeA1, NodeB>>},
   s2 |-> {<<NodeA1>>, <<NodeA1, NodeB>>}]


\* normalize_for_hash on one node: the long hex id becomes the placeholder.
normalize_for_hash(p) ==
  [text |-> p.text, tech |-> IF p.tech = "" THEN "" ELSE "[TECH_ID]"]

\* sha256 is taken to be collision free: the digest names its input.
make_hash(text) == [sha256 |-> text]

\* extract: display_text keeps the nodes as served, hash_text is their
\* normalised plain text; checked_at is the reading of line 404.
extract(html_text, ts) ==
  [display_text |-> html_text,
   hash_text |-> [i \in 1..Len(html_text) |-> normalize_for_hash(html_text[i])],
   checked_at |-> ts]

\* split_paragraphs: the display text is already cut at its blank lines;
\* empty parts are dropped.
split_paragraphs(text) ==
  SelectSeq(text, LAMBDA p : ~(p.text = "" /\ p.tech = ""))

\* paragraphs_to_html
paragraphs_to_html(paragraphs) ==
  [i \in 1..Len(paragraphs) |->
     [tag |-> "p", text |-> paragraphs[i].text, tech |-> paragraphs[i].tech]]

Notice(words) == <<[tag |-> "em", text |-> words, tech |-> ""]>>

(***************************************************************************)
(* difflib.SequenceMatcher(None, a, b), as added_paragraphs_html uses it.  *)
(* Indices are Python's: 0-based, ranges half open; a[i] is a[i + 1] here. *)
(* No element is junk (isjunk is None, and autojunk needs 200 elements).   *)
(***************************************************************************)
\* Length of the common run that ends at a[i], b[j] inside the window.
RECURSIVE RunLen(_, _, _, _, _, _)
RunLen(a, b, i, j, alo, blo) ==
  IF i < alo \/ j < blo THEN 0
  ELSE IF a[i + 1] # b[j + 1] THEN 0
  ELSE 1 + RunLen(a, b, i - 1, j - 1, alo, blo)

\* find_longest_match: the longest block; of those the one that starts
\* earliest in a, and of those the one that starts earliest in b.
find_longest_match(a, b, alo, ahi, blo, bhi) ==
  LET ends == {c \in (alo..(ahi - 1)) \X (blo..(bhi - 1)) : a[c[1] + 1] = b[c[2] + 1]}
      len(c) == RunLen(a, b, c[1], c[2], alo, blo)
  IN  IF ends = {} THEN [i |-> alo, j |-> blo, size |-> 0]
      ELSE LET best == CHOOSE c \in ends :
                         \A d \in ends :
                            \/ len(d) < len(c)
                            \/ /\ len(d) = len(c)
                               /\ \/ c[1] < d[1]
                                  \/ (c[1] = d[1] /\ c[2] <= d[2])
               k == len(best)
           IN  [i |-> best[1] - k + 1, j |-> best[2] - k + 1, size |-> k]

\* get_matching_blocks, without the closing sentinel: the recursion to the
\* left and to the right of the longest block, in increasing order.
RECURSIVE MatchingBlocks(_, _, _, _, _, _)
MatchingBlocks(a, b, alo, ahi, blo, bhi) ==
  LET m == find_longest_match(a, b, alo, ahi, blo, bhi)
  IN  IF m.size = 0 THEN <<>>
      ELSE (IF alo < m.i /\ blo < m.j
            THEN MatchingBlocks(a, b, alo, m.i, blo, m.j) ELSE <<>>)
           \o <<m>>
           \o (IF m.i + m.size < ahi /\ m.j + m.size < bhi
               THEN MatchingBlocks(a, b, m.i + m.size, ahi, m.j + m.size, bhi)
               ELSE <<>>)

get_matching_blocks(a, b) ==
  MatchingBlocks(a, b, 0, Len(a), 0, Len(b))
    \o <<[i |-> Len(a), j |-> Len(b), size |-> 0]>>

\* get_opcodes: what lies between consecutive matching blocks.
RECURSIVE Opcodes(_, _, _)
Opcodes(blocks, i, j) ==
  IF blocks = <<>> THEN <<>>
  ELSE LET blk == Head(blocks)
           tag == IF i < blk.i /\ j < blk.j THEN "replace"
                  ELSE IF i < blk.i THEN "delete"
                  ELSE IF j < blk.j THEN "insert"
                  ELSE ""
           gap == IF tag = "" THEN <<>>
                  ELSE <<[tag |-> tag, i1 |-> i, i2 |-> blk.i, j1 |-> j, j2 |-> blk.j]>>
           eq  == IF blk.size = 0 THEN <<>>
                  ELSE <<[tag |-> "equal", i1 |-> blk.i, i2 |-> blk.i + blk.size,
                          j1 |-> blk.j, j2 |-> blk.j + blk.size]>>
       IN  gap \o eq \o Opcodes(Tail(blocks), blk.i + blk.size, blk.j + blk.size)

get_opcodes(a, b) == Opcodes(get_matching_blocks(a, b), 0, 0)

(***************************************************************************)
(* added_paragraphs_html                                                   *)
(***************************************************************************)
\* re.sub of the placeholders by '' and strip(), on a normalised paragraph
StripPlaceholders(p) == [text |-> p.text, tech |-> ""]

\* A faulty variant of AddedByOpcode: inserted paragraphs reported in
\* their normalised form, replaced ones not at all.
AddedByOpcode_Normalised(op, old_pars_norm, new_pars, new_pars_norm) ==
  IF op.tag = "insert" THEN SubSeq(new_pars_norm, op.j1 + 1, op.j2) ELSE <<>>

\* the paragraphs one opcode contributes to `added`
AddedByOpcode(op, old_pars_norm, new_pars, new_pars_norm) ==
  IF op.tag = "insert" THEN SubSeq(new_pars, op.j1 + 1, op.j2)
  ELSE IF op.tag = "replace"
  THEN LET n == IF op.i2 - op.i1 < op.j2 - op.j1 THEN op.i2 - op.i1 ELSE op.j2 - op.j1
           differs(k) == StripPlaceholders(old_pars_norm[op.i1 + k])
                           # StripPlaceholders(new_pars_norm[op.j1 + k])
           picked == {k \in 1..n : differs(k)}
           RECURSIVE Pick(_)
           Pick(k) == IF k > n THEN <<>>
                      ELSE (IF k \in picked THEN <<new_pars[op.j1 + k]>> ELSE <<>>)
                           \o Pick(k + 1)
       IN  Pick(1)
  ELSE <<>>

RECURSIVE AddedByOpcodes(_, _, _, _)
AddedByOpcodes(ops, old_pars_norm, new_pars, new_pars_norm) ==
  IF ops = <<>> THEN <<>>
  ELSE AddedByOpcode(Head(ops), old_pars_norm, new_pars, new_pars_norm)
       \o AddedByOpcodes(Tail(ops), old_pars_norm, new_pars, new_pars_norm)

added_paragraphs_html(old_text, new_text) ==
  IF split_paragraphs(old_text) = <<>>
  THEN Notice("Erste Erfassung - keine Aenderungen zu vergleichen.")
  ELSE LET old_pars == split_paragraphs(old_text)
           new_pars == split_paragraphs(new_text)
           old_pars_norm == [i \in 1..Len(old_pars) |-> normalize_for_hash(old_pars[i])]
           new_pars_norm == [i \in 1..Len(new_pars) |-> normalize_for_hash(new_pars[i])]
           added == AddedByOpcodes(get_opcodes(old_pars_norm, new_pars_norm),
                                   old_pars_norm, new_pars, new_pars_norm)
       IN  IF added = <<>>
           THEN Notice("Keine neuen oder substantiell geaenderten Inhalte erkannt.")
           ELSE paragraphs_to_html(added)

(***************************************************************************)
(* The state document, the files, the tasks                                *)
(***************************************************************************)
VARIABLES
  state,      \* the in-memory state document of the running main()
  fs,         \* the files under storage_path: file name -> content
  feeds,      \* the feed files under feeds_path
  mainpc,     \* where main() stands
  pc,         \* per site: where its process_site task stands
  locals,     \* per site: the local variables of its process_site task
  results,    \* per site: what its task returned to asyncio.gather
  running,    \* the task the event loop is executing, "none" between tasks
  now,        \* the last reading of the clock
  loaded,     \* history: the document load_state returned to this run
  order,      \* history: the fetches of this run that returned markup, in order
  runStarts,  \* history: the clock reading at which each run started
  payload,    \* cdata_wrap: the fragment passed in
  parsed,     \* cdata_wrap: whether BeautifulSoup handled the fragment
  wrapped,    \* cdata_wrap: the string returned
  cdpc,       \* cdata_wrap: "call" before, "done" after
  diff_old,   \* added_paragraphs_html: the old display text passed in
  diff_new,   \* added_paragraphs_html: the new display text passed in
  diff_added, \* added_paragraphs_html: the fragment returned
  diffpc      \* added_paragraphs_html: "call" before, "done" after

vars == <<state, fs, feeds, mainpc, pc, locals, results, running, now, loaded,
          order, runStarts, payload, parsed, wrapped, cdpc,
          diff_old, diff_new, diff_added, diffpc>>

mainVars == <<state, fs, feeds, mainpc, pc, locals, results, running, now, loaded,
              order, runStarts>>

cdataVars == <<payload, parsed, wrapped, cdpc>>

diffVars == <<diff_old, diff_new, diff_added, diffpc>>

\* load_state's fresh document (lines 278-281)
EmptyDoc == [sites |-> <<>>, items |-> <<>>]

\* A file: absent, text (the JSON of doc, of which `written` of NChunks pieces
\* are on disk), garbage (not JSON) or unreadable (open() is refused).
File(kind, doc, written) == [kind |-> kind, doc |-> doc, written |-> written]

Absent == File("absent", EmptyDoc, 0)

\* state_path: os.path.join(storage_path, STATE_FILENAME)
state_path == <<STATE_FILENAME>>

\* save_state, line 287: tmp = path + ".tmp"
tmp_path(path) == path \o <<".tmp">>

FileNames == {state_path, tmp_path(state_path)}

\* load_state: the fresh document when the path does not exist, the parsed
\* document when it holds one; open() and json.load raise otherwise, and
\* nothing catches what they raise.
load_state(files) ==
  LET f == files[state_path]
  IN  IF f.kind = "absent" THEN [raised |-> FALSE, doc |-> EmptyDoc]
      ELSE IF f.kind = "text" /\ f.written = NChunks THEN [raised |-> FALSE, doc |-> f.doc]
      ELSE [raised |-> TRUE, doc |-> EmptyDoc]

NoLocals ==
  [display_text |-> <<>>, h |-> make_hash(<<>>), checked_at |-> 0, now_iso |-> 0,
   site_state |-> FALSE, has_hash |-> FALSE, last_hash |-> make_hash(<<>>),
   old_content |-> <<>>, added_html |-> <<>>, branch |-> ""]

slug_of(t) == slugify(SiteCfg[t].name)

(***************************************************************************)
(* process_site, between its await and its return                          *)
(***************************************************************************)
\* Lines 479-493: extract, the hash, the look-up of the stored record.
\* site_state is the stored record itself (no copy) or a fresh empty dict.
ReadSite(doc, t, html_text, ts, now_iso) ==
  LET meta == extract(html_text, ts)
      slug == slug_of(t)
      has  == slug \in DOMAIN doc.sites
  IN  [display_text |-> meta.display_text,
       h |-> make_hash(meta.hash_text),
       checked_at |-> meta.checked_at,
       now_iso |-> now_iso,
       site_state |-> has,
       has_hash |-> has,
       last_hash |-> IF has THEN doc.sites[slug].hash ELSE make_hash(<<>>),
       old_content |-> <<>>, added_html |-> <<>>, branch |-> ""]

\* Which way lines 496 and 537 go.
Branch(doc, t, l) ==
  IF slug_of(t) \notin DOMAIN doc.sites THEN "first"
  ELSE IF l.has_hash /\ l.h = l.last_hash THEN "unchanged"
  ELSE "update"

\* A faulty variant of OldContent: the stale last_full of line 489
\* (site_state.get("previous_content", "")) taken for the old content.
OldContent_LastFull(doc, t, l) ==
  IF l.site_state THEN doc.sites[slug_of(t)].previous_content ELSE <<>>

\* Line 543: old_content = site_state.get("current_content", "")
OldContent(doc, t, l) ==
  IF l.site_state THEN doc.sites[slug_of(t)].current_content ELSE <<>>

\* A faulty variant of FirstRecord: last_checked taken from the extraction's
\* checked_at instead of now_iso.
FirstRecord_CheckedAtExtract(t, l) ==
  [name |-> SiteCfg[t].name,
   bundesland |-> SiteCfg[t].bundesland,
   url |-> SiteCfg[t].url,
   hash |-> l.h,
   current_content |-> l.display_text,
   previous_content |-> <<>>,
   first_seen |-> l.now_iso,
   last_change |-> l.now_iso,
   last_checked |-> l.checked_at]

\* Lines 498-508: the record of a first sighting.
FirstRecord(t, l) ==
  [name |-> SiteCfg[t].name,
   bundesland |-> SiteCfg[t].bundesland,
   url |-> SiteCfg[t].url,
   hash |-> l.h,
   current_content |-> l.display_text,
   previous_content |-> <<>>,
   first_seen |-> l.now_iso,
   last_change |-> l.now_iso,
   last_checked |-> l.now_iso]

\* A faulty variant of CheckedRecord: an unchanged run that also moves
\* last_change.
CheckedRecord_MovesLastChange(rec, l) ==
  [rec EXCEPT !.last_checked = l.now_iso, !.last_change = l.now_iso]

\* Line 535, and the return of line 540: only last_checked moves.
CheckedRecord(rec, l) == [rec EXCEPT !.last_checked = l.now_iso]

\* A faulty variant of ChangedRecord: the update stores the new content
\* and leaves the hash of the old one.
ChangedRecord_KeepsHash(rec, old_content, l) ==
  [rec EXCEPT !.last_checked = l.now_iso,
              !.previous_content = old_content,
              !.current_content = l.display_text,
              !.last_change = l.now_iso]

\* Lines 535 and 549-554: the record after a detected change.
ChangedRecord(rec, old_content, l) ==
  [rec EXCEPT !.last_checked = l.now_iso,
              !.hash = l.h,
              !.previous_content = old_content,
              !.current_content = l.display_text,
              !.last_change = l.now_iso]

\* Lines 496-508 and 535-554: what the branch does to the records.
UpdateRecord(doc, t, l) ==
  LET slug == slug_of(t)
      b == Branch(doc, t, l)
  IN  IF b = "first"
      THEN [doc EXCEPT !.sites = (slug :> FirstRecord(t, l)) @@ doc.sites]
      ELSE IF b = "unchanged"
      THEN [doc EXCEPT !.sites[slug] = CheckedRecord(@, l)]
      ELSE [doc EXCEPT !.sites[slug] = ChangedRecord(@, OldContent(doc, t, l), l)]

\* The locals the branch leaves behind for the append (lines 543-544).
DetectLocals(doc, t, l) ==
  LET b == Branch(doc, t, l)
      old == OldContent(doc, t, l)
  IN  IF b = "update"
      THEN [l EXCEPT !.branch = b, !.old_content = old,
                     !.added_html = added_paragraphs_html(old, l.display_text)]
      ELSE [l EXCEPT !.branch = b]

\* The event of lines 511-523 (first sighting) or 557-569 (update).  The
\* selectors and node labels of meta are copied along and left out here.
NewEvent(doc, t, l) ==
  LET slug == slug_of(t)
  IN  [slug |-> slug,
       bundesland |-> SiteCfg[t].bundesland,
       first_seen |-> IF l.branch = "first" THEN l.now_iso
                      ELSE IF l.site_state THEN doc.sites[slug].first_seen
                      ELSE l.now_iso,
       checked_at |-> l.checked_at,
       aenderungen_html |-> IF l.branch = "first"
                            THEN Notice("Erste Erfassung - Monitoring gestartet.")
                            ELSE l.added_html,
       bisheriger_html |-> IF l.branch = "first" THEN l.display_text
                           ELSE l.old_content]

\* state["items"][-2000:]
LastItems(items, n) ==
  IF Len(items) > n THEN SubSeq(items, Len(items) - n + 1, Len(items)) ELSE items

\* Lines 511-523: the append of the first sighting; lines 557-572: the append
\* of an update and the truncation that follows it.
AppendEvent(doc, t, l) ==
  LET items == Append(doc.items, NewEvent(doc, t, l))
  IN  IF l.branch = "first"
      THEN [doc EXCEPT !.items = items]
      ELSE [doc EXCEPT !.items = LastItems(items, ItemsCap)]

\* process_site from the return of fetch to its own return, in one piece.
ProcessSiteAtomic(doc, t, html_text, ts, now_iso) ==
  LET l0 == ReadSite(doc, t, html_text, ts, now_iso)
      l1 == DetectLocals(doc, t, l0)
      d1 == UpdateRecord(doc, t, l0)
  IN  IF l1.branch = "unchanged" THEN d1 ELSE AppendEvent(d1, t, l1)

(***************************************************************************)
(* generate_feeds_from_state                                               *)
(***************************************************************************)
\* main, line 708
active_slugs == {slug_of(t) : t \in Sites}

\* ev.get("first_seen", ev.get("fetched_at", "")): every event this program
\* appends carries first_seen.
EventDate(ev) == ev.first_seen

\* list.sort(key=EventDate, reverse=True): stable, equal keys keep their order.
InsertByDate(sorted, ev) ==
  LET k == Cardinality({i \in 1..Len(sorted) : EventDate(sorted[i]) >= EventDate(ev)})
  IN  SubSeq(sorted, 1, k) \o <<ev>> \o SubSeq(sorted, k + 1, Len(sorted))

RECURSIVE SortUpTo(_, _)
SortUpTo(evs, n) ==
  IF n = 0 THEN <<>> ELSE InsertByDate(SortUpTo(evs, n - 1), evs[n])

SortNewestFirst(evs) == SortUpTo(evs, Len(evs))

\* Lines 604-611 and 639-645: the events of active slugs inside the window.
Retained(doc, cutoff_dt) ==
  SelectSeq(doc.items,
            LAMBDA ev : ev.slug \in active_slugs /\ EventDate(ev) >= cutoff_dt)

\* build_item_description: the header dates, then the two fragments.
build_item_description(ev) ==
  [first_seen |-> ev.first_seen, checked_at |-> ev.checked_at,
   changes |-> ev.aenderungen_html, previous |-> ev.bisheriger_html]

\* Lines 621-627 and 656-662
RssItem(ev) ==
  [guid |-> <<ev.slug, EventDate(ev)>>,
   pubDate |-> EventDate(ev),
   description |-> build_item_description(ev)]

RssItems(evs) == [i \in 1..Len(evs) |-> RssItem(evs[i])]

\* Lines 603-635: one file per slug that has a retained event.
SiteFeeds(doc, cutoff_dt) ==
  LET kept == Retained(doc, cutoff_dt)
      slugs == {kept[i].slug : i \in 1..Len(kept)}
  IN  [slug \in slugs |->
         RssItems(SortNewestFirst(SelectSeq(kept, LAMBDA ev : ev.slug = slug)))]

\* Lines 638-671: one file per region, cut out of the sorted list of all.
RegionFeeds(doc, cutoff_dt) ==
  LET ev_all == SortNewestFirst(Retained(doc, cutoff_dt))
      regions == {ev_all[i].bundesland : i \in 1..Len(ev_all)}
  IN  [bl \in {slugify(r) : r \in regions} |->
         RssItems(SelectSeq(ev_all, LAMBDA ev : slugify(ev.bundesland) = bl))]

\* The feed files after the call; a file that is not written stays as it was.
generate_feeds_from_state(doc, files, cutoff_now) ==
  IF active_slugs = {} THEN files
  ELSE LET cutoff_dt == cutoff_now - feed_retention_days
       IN  [site |-> SiteFeeds(doc, cutoff_dt) @@ files.site,
            region |-> RegionFeeds(doc, cutoff_dt) @@ files.region]

(***************************************************************************)
(* Scheduling                                                              *)
(***************************************************************************)
\* A faulty variant of LoopFree: tasks on threads of their own, resumed
\* whether or not another task is between its await and its return.
LoopFree_Preemptive == TRUE

\* asyncio runs one task at a time: a task that resumed from its await
\* keeps the loop until it returns (lines 479-580 hold no await).
LoopFree == running = "none"

HoldsLoop(t) == running = t

\* now_utc() is read once per process_site in extract and once at line 490,
\* and twice by generate_feeds_from_state; one more reading separates runs.
TicksPerRun == 1 + 2 * Cardinality(Sites) + 2

\* A faulty variant of AllDone: a task that returned None keeps main() from
\* going on.
AllDone_NeedsResults == \A t \in Sites : pc[t] = "done" /\ results[t] = "dict"

AllDone == \A t \in Sites : pc[t] = "done"

(***************************************************************************)
(* main                                                                    *)
(***************************************************************************)
InitMain ==
  /\ state = EmptyDoc
  /\ fs = [n \in FileNames |-> Absent]
  /\ feeds = [site |-> <<>>, region |-> <<>>]
  /\ mainpc = "idle"
  /\ pc = [t \in Sites |-> "idle"]
  /\ locals = [t \in Sites |-> NoLocals]
  /\ results = [t \in Sites |-> "pending"]
  /\ running = "none"
  /\ now = 0
  /\ loaded = EmptyDoc
  /\ order = <<>>
  /\ runStarts = <<>>

\* No call of added_paragraphs_html outside process_site is under way.
InitDiffIdle ==
  /\ diff_old = <<>>
  /\ diff_new = <<>>
  /\ diff_added = <<>>
  /\ diffpc = "idle"

Init ==
  /\ InitMain
  /\ InitDiffIdle
  /\ payload = <<>>
  /\ parsed = FALSE
  /\ wrapped = <<>>
  /\ cdpc = "idle"

\* Lines 689-700: a run starts; load_state either returns the document and the
\* tasks are started, or raises, and main() ends with the exception.
StartRunBy(limit) ==
  /\ mainpc = "idle"
  /\ now + TicksPerRun <= limit
  /\ LET r == load_state(fs)
     IN  /\ ~r.raised
         /\ state' = r.doc
         /\ loaded' = r.doc
  /\ mainpc' = "gather"
  /\ pc' = [t \in Sites |-> "fetch"]
  /\ results' = [t \in Sites |-> "pending"]
  /\ order' = <<>>
  /\ now' = now + 1
  /\ runStarts' = Append(runStarts, now + 1)
  /\ UNCHANGED <<fs, feeds, locals, running>>
  /\ UNCHANGED cdataVars
  /\ UNCHANGED diffVars

StartRun == StartRunBy(MaxTime)

StartRunStore == StartRunBy(MaxTimeStore)

LoadRaises ==
  /\ mainpc = "idle"
  /\ now + TicksPerRun <= MaxTimeStore
  /\ load_state(fs).raised
  /\ mainpc' = "aborted"
  /\ now' = now + 1
  /\ runStarts' = Append(runStarts, now + 1)
  /\ UNCHANGED <<state, fs, feeds, pc, locals, results, running, loaded, order>>
  /\ UNCHANGED cdataVars
  /\ UNCHANGED diffVars

\* Lines 475-477: the fetch of t fails (fetch returns None) and the task
\* returns None.
FetchFails(t) ==
  /\ mainpc = "gather"
  /\ pc[t] = "fetch"
  /\ LoopFree
  /\ pc' = [pc EXCEPT ![t] = "done"]
  /\ results' = [results EXCEPT ![t] = "None"]
  /\ UNCHANGED <<state, fs, feeds, mainpc, locals, running, now, loaded, order, runStarts>>
  /\ UNCHANGED cdataVars
  /\ UNCHANGED diffVars

\* Lines 475-493: the fetch of t returns markup; the task resumes, extracts
\* and looks the site up.
FetchReturns(t) ==
  /\ mainpc = "gather"
  /\ pc[t] = "fetch"
  /\ LoopFree
  /\ \E html_text \in Served[t] :
       /\ locals' = [locals EXCEPT ![t] = ReadSite(state, t, html_text, now + 1, now + 2)]
       /\ order' = Append(order, [site |-> t, html_text |-> html_text,
                                  checked_at |-> now + 1, now_iso |-> now + 2])
  /\ now' = now + 2
  /\ pc' = [pc EXCEPT ![t] = "detect"]
  /\ running' = t
  /\ UNCHANGED <<state, fs, feeds, mainpc, results, loaded, runStarts>>
  /\ UNCHANGED cdataVars
  /\ UNCHANGED diffVars

\* Lines 496-508 and 535-554: first sighting, unchanged (return None) or update.
Detect(t) ==
  /\ pc[t] = "detect"
  /\ HoldsLoop(t)
  /\ state' = UpdateRecord(state, t, locals[t])
  /\ IF Branch(state, t, locals[t]) = "unchanged"
     THEN /\ pc' = [pc EXCEPT ![t] = "done"]
          /\ results' = [results EXCEPT ![t] = "None"]
          /\ locals' = [locals EXCEPT ![t] = NoLocals]
          /\ running' = "none"
     ELSE /\ pc' = [pc EXCEPT ![t] = "append"]
          /\ locals' = [locals EXCEPT ![t] = DetectLocals(state, t, locals[t])]
          /\ UNCHANGED <<results, running>>
  /\ UNCHANGED <<fs, feeds, mainpc, now, loaded, order, runStarts>>
  /\ UNCHANGED cdataVars
  /\ UNCHANGED diffVars

\* Lines 510-532 and 556-580: the event is appended and the task returns its
\* result.
AppendItem(t) ==
  /\ pc[t] = "append"
  /\ HoldsLoop(t)
  /\ state' = AppendEvent(state, t, locals[t])
  /\ pc' = [pc EXCEPT ![t] = "done"]
  /\ results' = [results EXCEPT ![t] = "dict"]
  /\ locals' = [locals EXCEPT ![t] = NoLocals]
  /\ running' = "none"
  /\ UNCHANGED <<fs, feeds, mainpc, now, loaded, order, runStarts>>
  /\ UNCHANGED cdataVars
  /\ UNCHANGED diffVars

(***************************************************************************)
(* save_state                                                              *)
(***************************************************************************)
\* A faulty variant of save_target: the document written in place.
save_target_InPlace(path) == path

\* Line 287: the file save_state writes to.
save_target(path) == tmp_path(path)

\* os.replace(src, dst)
replace(files, src, dst) ==
  IF src = dst THEN files
  ELSE [files EXCEPT ![dst] = files[src], ![src] = Absent]

\* Line 288: gather has returned; open(tmp, "w") creates or empties the file.
SaveOpen ==
  /\ mainpc = "gather"
  /\ AllDone
  /\ fs' = [fs EXCEPT ![save_target(state_path)] = File("text", state, 0)]
  /\ mainpc' = "save_write"
  /\ UNCHANGED <<state, feeds, pc, locals, results, running, now, loaded, order, runStarts>>
  /\ UNCHANGED cdataVars
  /\ UNCHANGED diffVars

\* Line 289: json.dump writes the next piece.
SaveWrite ==
  /\ mainpc = "save_write"
  /\ fs[save_target(state_path)].written < NChunks
  /\ fs' = [fs EXCEPT ![save_target(state_path)].written = @ + 1]
  /\ UNCHANGED <<state, feeds, mainpc, pc, locals, results, running, now, loaded, order,
                 runStarts>>
  /\ UNCHANGED cdataVars
  /\ UNCHANGED diffVars

\* Line 290: the file is closed and replaces the state file.
SaveReplace ==
  /\ mainpc = "save_write"
  /\ fs[save_target(state_path)].written = NChunks
  /\ fs' = replace(fs, save_target(state_path), state_path)
  /\ mainpc' = "feeds"
  /\ UNCHANGED <<state, feeds, pc, locals, results, running, now, loaded, order, runStarts>>
  /\ UNCHANGED cdataVars
  /\ UNCHANGED diffVars

\* The process dies inside save_state: before the open, between two writes or
\* before the replace.  Its memory is gone, the files stay as they are.
Crash ==
  /\ \/ mainpc = "save_write"
     \/ (mainpc = "gather" /\ AllDone)
  /\ mainpc' = "idle"
  /\ state' = EmptyDoc
  /\ loaded' = EmptyDoc
  /\ order' = <<>>
  /\ pc' = [t \in Sites |-> "idle"]
  /\ results' = [t \in Sites |-> "pending"]
  /\ UNCHANGED <<fs, feeds, locals, running, now, runStarts>>
  /\ UNCHANGED cdataVars
  /\ UNCHANGED diffVars

\* Line 709: the feeds are written and main() returns.
GenerateFeeds ==
  /\ mainpc = "feeds"
  /\ feeds' = generate_feeds_from_state(state, feeds, now + 1)
  /\ now' = now + 2
  /\ mainpc' = "idle"
  /\ state' = EmptyDoc
  /\ loaded' = EmptyDoc
  /\ order' = <<>>
  /\ pc' = [t \in Sites |-> "idle"]
  /\ results' = [t \in Sites |-> "pending"]
  /\ UNCHANGED <<fs, locals, running, runStarts>>
  /\ UNCHANGED cdataVars
  /\ UNCHANGED diffVars

\* Between two runs something outside the program leaves the state file
\* without valid JSON in it, or without read permission.
DamageStateFile ==
  /\ mainpc = "idle"
  /\ fs[state_path].kind \in {"absent", "text"}
  /\ \E kind \in {"garbage", "unreadable"} :
       fs' = [fs EXCEPT ![state_path] = File(kind, EmptyDoc, 0)]
  /\ UNCHANGED <<state, feeds, mainpc, pc, locals, results, running, now, loaded, order,
                 runStarts>>
  /\ UNCHANGED cdataVars
  /\ UNCHANGED diffVars

Next ==
  \/ StartRun
  \/ \E t \in Sites : FetchFails(t)
  \/ \E t \in Sites : FetchReturns(t)
  \/ \E t \in Sites : Detect(t)
  \/ \E t \in Sites : AppendItem(t)
  \/ SaveOpen
  \/ SaveWrite
  \/ SaveReplace
  \/ GenerateFeeds

Spec == Init /\ [][Next]_vars

\* A started run goes on: the event loop resumes a task whose fetch has
\* ended (fetch is bounded by its timeout), a resumed task runs to its
\* return, and main() goes on to save_state and generate_feeds_from_state.
RunStep ==
  \/ \E t \in Sites : FetchFails(t)
  \/ \E t \in Sites : FetchReturns(t)
  \/ \E t \in Sites : Detect(t)
  \/ \E t \in Sites : AppendItem(t)
  \/ SaveOpen
  \/ SaveWrite
  \/ SaveReplace
  \/ GenerateFeeds

\* ENABLED <<RunStep>>_vars, written out as the guards of the actions of
\* RunStep (each of them changes pc, fs or mainpc when it is taken).
RunStepEnabled ==
  \/ \E t \in Sites : mainpc = "gather" /\ pc[t] = "fetch" /\ LoopFree
  \/ \E t \in Sites : pc[t] \in {"detect", "append"} /\ HoldsLoop(t)
  \/ mainpc = "gather" /\ AllDone
  \/ mainpc \in {"save_write", "feeds"}

\* Weak fairness of RunStep, WF_vars(RunStep), with its ENABLED written out.
FairRun == []<>(~RunStepEnabled) \/ []<><<RunStep>>_vars

SpecFair == Init /\ [][Next]_vars /\ FairRun

\* The same runs with the faults of the storage in play: the process may die
\* inside save_state, and the state file may be damaged between runs.
NextStore ==
  \/ StartRunStore
  \/ LoadRaises
  \/ \E t \in Sites : FetchFails(t)
  \/ \E t \in Sites : FetchReturns(t)
  \/ \E t \in Sites : Detect(t)
  \/ \E t \in Sites : AppendItem(t)
  \/ SaveOpen
  \/ SaveWrite
  \/ SaveReplace
  \/ Crash
  \/ GenerateFeeds
  \/ DamageStateFile

SpecStore == Init /\ [][NextStore]_vars

(***************************************************************************)
(* Runs that lie far apart                                                 *)
(***************************************************************************)
\* The time between the end of a run and the start of the next, in the unit
\* of feed_retention_days: none to speak of, or the whole retention window.
Gaps == {0, feed_retention_days}

\* Lines 689-700, as StartRunBy, for a run started `gap` after the last one
\* ended; MaxRuns runs are followed.
StartRunAfter(gap) ==
  /\ mainpc = "idle"
  /\ Len(runStarts) < MaxRuns
  /\ LET r == load_state(fs)
     IN  /\ ~r.raised
         /\ state' = r.doc
         /\ loaded' = r.doc
  /\ mainpc' = "gather"
  /\ pc' = [t \in Sites |-> "fetch"]
  /\ results' = [t \in Sites |-> "pending"]
  /\ order' = <<>>
  /\ now' = now + gap + 1
  /\ runStarts' = Append(runStarts, now + gap + 1)
  /\ UNCHANGED <<fs, feeds, locals, running>>
  /\ UNCHANGED cdataVars
  /\ UNCHANGED diffVars

NextRetention ==
  \/ \E gap \in Gaps : StartRunAfter(gap)
  \/ \E t \in Sites : FetchFails(t)
  \/ \E t \in Sites : FetchReturns(t)
  \/ \E t \in Sites : Detect(t)
  \/ \E t \in Sites : AppendItem(t)
  \/ SaveOpen
  \/ SaveWrite
  \/ SaveReplace
  \/ GenerateFeeds

SpecRetention == Init /\ [][NextRetention]_vars

(***************************************************************************)
(* cdata_wrap and the reading of its result                                *)
(*                                                                         *)
(* A payload is a sequence of tokens: the characters "]", ">" and "x", a   *)
(* control character (U+0001), and the nine characters "<![CDATA[" as one  *)
(* token.  The results also hold "&gt;", "<![C DATA[" and the markup       *)
(* BeautifulSoup puts around a bare text.                                  *)
(***************************************************************************)
CDataOpen == "<![CDATA["

CDataEnd == <<"]", "]", ">">>

ControlChar == "U+0001"

PayloadTokens == {"]", ">", "x", ControlChar, CDataOpen}

Payloads == UNION {[1..k -> PayloadTokens] : k \in 0..MaxLen}

\* str.replace(old, new): left to right, without overlap
RECURSIVE str_replace(_, _, _)
str_replace(s, old, new) ==
  IF Len(s) < Len(old) THEN s
  ELSE IF SubSeq(s, 1, Len(old)) = old
  THEN new \o str_replace(SubSeq(s, Len(old) + 1, Len(s)), old, new)
  ELSE <<Head(s)>> \o str_replace(Tail(s), old, new)

\* xml_sanitize: the characters XML 1.0 does not allow are dropped
xml_sanitize(text) == SelectSeq(text, LAMBDA ch : ch # ControlChar)

\* Lines 216-226 when the parser accepts the payload: the text comes back
\* inside <html><body><p>, its ">" written as an entity; "<![" opens a bogus
\* comment that runs to the next ">", and comments are taken out.
RECURSIVE SoupText(_)
SoupText(s) ==
  IF s = <<>> THEN <<>>
  ELSE IF Head(s) = CDataOpen
  THEN LET ends == {i \in 2..Len(s) : s[i] = ">"}
       IN  IF ends = {} THEN <<>>
           ELSE SoupText(SubSeq(s, (CHOOSE i \in ends : \A j \in ends : i <= j) + 1, Len(s)))
  ELSE IF Head(s) = ">" THEN <<"&gt;">> \o SoupText(Tail(s))
  ELSE <<Head(s)>> \o SoupText(Tail(s))

SoupStr(s) ==
  LET text == SoupText(s)
  IN  IF text = <<>> THEN <<>> ELSE <<"<html><body><p>">> \o text \o <<"</p></body></html>">>

\* cdata_wrap; parse_ok tells whether lines 216-226 ran through or raised
\* (line 227: the raw payload is kept).
cdata_wrap(html_payload, parse_ok) ==
  IF html_payload = <<>> THEN <<CDataOpen>> \o CDataEnd
  ELSE LET souped == IF parse_ok THEN SoupStr(html_payload) ELSE html_payload
           clean == xml_sanitize(souped)
           split == str_replace(clean, CDataEnd, <<"]", "]", "]", "]", ">", CDataOpen, ">">>)
           neutral == str_replace(split, <<CDataOpen>>, <<"<![C DATA[">>)
       IN  <<CDataOpen>> \o neutral \o CDataEnd

\* How an XML parser reads the content of <description>: a CDATA section runs
\* from "<![CDATA[" to the first "]]>"; outside a section "<![" opens nothing
\* XML knows and "]]>" is not allowed.  `outside` counts the tokens read as
\* character data outside every section.
RECURSIVE XmlRead(_, _)
XmlRead(s, inside) ==
  IF s = <<>> THEN [ok |-> ~inside, outside |-> 0]
  ELSE IF inside
  THEN IF Len(s) >= 3 /\ SubSeq(s, 1, 3) = CDataEnd
       THEN XmlRead(SubSeq(s, 4, Len(s)), FALSE)
       ELSE XmlRead(Tail(s), TRUE)
  ELSE IF Head(s) = CDataOpen THEN XmlRead(Tail(s), TRUE)
  ELSE IF Head(s) = "<![C DATA[" THEN [ok |-> FALSE, outside |-> 0]
  ELSE IF Len(s) >= 3 /\ SubSeq(s, 1, 3) = CDataEnd THEN [ok |-> FALSE, outside |-> 0]
  ELSE LET rest == XmlRead(Tail(s), FALSE)
       IN  [ok |-> rest.ok, outside |-> rest.outside + 1]

\* make_rss, line 178: the description element around the wrapped payload
ReadDescription(desc_cdata) == XmlRead(desc_cdata, FALSE)

InitCdata ==
  /\ InitMain
  /\ InitDiffIdle
  /\ payload \in Payloads
  /\ parsed \in BOOLEAN
  /\ wrapped = <<>>
  /\ cdpc = "call"

\* make_rss, line 172: desc_cdata = cdata_wrap(desc)
CdataWrap ==
  /\ cdpc = "call"
  /\ wrapped' = cdata_wrap(payload, parsed)
  /\ cdpc' = "done"
  /\ UNCHANGED <<payload, parsed>>
  /\ UNCHANGED mainVars
  /\ UNCHANGED diffVars

NextCdata == CdataWrap

SpecCdata == InitCdata /\ [][NextCdata]_vars

(***************************************************************************)
(* added_paragraphs_html on its own                                        *)
(***************************************************************************)
\* A part between two blank lines that holds nothing but white space.
BlankPart == [text |-> "", tech |-> ""]

DiffParts == {NodeA1, NodeA2, NodeB, BlankPart}

DiffTexts == UNION {[1..k -> DiffParts] : k \in 0..MaxPars}

InitDiff ==
  /\ InitMain
  /\ payload = <<>>
  /\ parsed = FALSE
  /\ wrapped = <<>>
  /\ cdpc = "idle"
  /\ diff_old \in DiffTexts
  /\ diff_new \in DiffTexts
  /\ diff_added = <<>>
  /\ diffpc = "call"

\* Line 544: added_html = added_paragraphs_html(old_content, display_text, cfg.name)
AddedParagraphs ==
  /\ diffpc = "call"
  /\ diff_added' = added_paragraphs_html(diff_old, diff_new)
  /\ diffpc' = "done"
  /\ UNCHANGED <<diff_old, diff_new>>
  /\ UNCHANGED mainVars
  /\ UNCHANGED cdataVars

NextDiff == AddedParagraphs

SpecDiff == InitDiff /\ [][NextDiff]_vars

(***************************************************************************)
(* Claims                                                                  *)
(***************************************************************************)
\* The records of doc other than that of slug
OtherRecordsKept(before, after, slug) ==
  /\ DOMAIN after.sites = DOMAIN before.sites \cup {slug}
  /\ \A s \in DOMAIN before.sites \ {slug} : after.sites[s] = before.sites[s]

\* Task t takes a step out of its detection (lines 496-554).
LeavesDetect(t) == pc[t] = "detect" /\ pc'[t] # "detect"

\* Task t takes a step out of its append (lines 510-580).
LeavesAppend(t) == pc[t] = "append" /\ pc'[t] # "append"

\* C1: when process_site finds the stored hash of an existing record equal
\* to the hash it computed, the step that decides it appends no event,
\* changes no field of the record but last_checked, leaves every other
\* record, the items, the files and the feeds alone, and the task returns
\* None.
C1_UnchangedRunChangesOnlyLastChecked ==
  [][\A t \in Sites :
       (/\ LeavesDetect(t)
        /\ slug_of(t) \in DOMAIN state.sites
        /\ locals[t].h = state.sites[slug_of(t)].hash)
       => /\ pc'[t] = "done"
          /\ results'[t] = "None"
          /\ state'.items = state.items
          /\ OtherRecordsKept(state, state', slug_of(t))
          /\ state'.sites[slug_of(t)] =
               [state.sites[slug_of(t)] EXCEPT !.last_checked = locals[t].now_iso]
          /\ fs' = fs
          /\ feeds' = feeds]_vars

\* C1 witness: a task of the current run has returned None after finding its
\* site unchanged: the record was checked in this run and changed before it.
C1_Witness ==
  \E t \in Sites :
    /\ mainpc = "gather"
    /\ pc[t] = "done"
    /\ results[t] = "None"
    /\ slug_of(t) \in DOMAIN state.sites
    /\ state.sites[slug_of(t)].last_checked >= runStarts[Len(runStarts)]
    /\ state.sites[slug_of(t)].last_change < runStarts[Len(runStarts)]
    /\ \E i \in 1..Len(order) :
         /\ order[i].site = t
         /\ order[i].html_text # state.sites[slug_of(t)].current_content

\* C2: a run starts from the document the last run saved and saves the one
\* it ends with; while the tasks of a run work on the document, a step that changes a
\* record's hash (a detected change) sets previous_content to the
\* current_content the record held before the step; every other step leaves
\* previous_content and current_content of every existing record as they
\* were; a record is created with an empty previous_content; and the append
\* that follows a detected change adds exactly one event, for that slug, whose
\* bisheriger_html is that old current_content.
C2_PreviousContentIsContentBeforeLastChange ==
  [][/\ (mainpc = "idle" /\ mainpc' = "gather") => state' = load_state(fs).doc
     /\ (mainpc = "save_write" /\ mainpc' = "feeds") =>
          fs'[state_path] = File("text", state, NChunks)
     /\ (mainpc = "gather" /\ mainpc' = "gather") =>
       /\ \A slug \in DOMAIN state.sites :
            /\ slug \in DOMAIN state'.sites
            /\ IF state'.sites[slug].hash # state.sites[slug].hash
               THEN state'.sites[slug].previous_content = state.sites[slug].current_content
               ELSE /\ state'.sites[slug].previous_content = state.sites[slug].previous_content
                    /\ state'.sites[slug].current_content = state.sites[slug].current_content
       /\ \A slug \in DOMAIN state'.sites \ DOMAIN state.sites :
            state'.sites[slug].previous_content = <<>>
       /\ \A t \in Sites :
            (LeavesAppend(t) /\ locals[t].branch = "update") =>
              LET last == state'.items[Len(state'.items)]
              IN  /\ state' = [state EXCEPT !.items = LastItems(Append(state.items, last), ItemsCap)]
                  /\ last.slug = slug_of(t)
                  /\ last.bisheriger_html = state.sites[slug_of(t)].previous_content
       /\ \A t \in Sites :
            (state'.items # state.items) => \E u \in Sites : LeavesAppend(u)]_vars

\* C2 witness: a record that has seen two detected changes: the history
\* holds the events of both, and the record's previous content is the prior
\* content of the second, not that of the first.
C2_Witness ==
  \E slug \in DOMAIN state.sites :
    /\ Len(state.items) = 2
    /\ \A i \in 1..2 :
         /\ state.items[i].slug = slug
         /\ state.items[i].aenderungen_html
              # Notice("Erste Erfassung - Monitoring gestartet.")
    /\ state.items[2].bisheriger_html = state.sites[slug].previous_content
    /\ state.items[1].bisheriger_html # state.sites[slug].previous_content

\* C3: on the first sighting of a site (no record under its slug) the
\* detection step creates the record with first_seen = last_change =
\* last_checked, the extracted display text as current_content and an empty
\* previous_content, and touches nothing else; the append step then adds
\* exactly one event, for that slug, with the 'monitoring started' notice as
\* aenderungen_html, and leaves the records and all earlier events alone.
C3_FirstSightingCreatesRecordAndOneEvent ==
  [][\A t \in Sites :
       /\ (LeavesDetect(t) /\ slug_of(t) \notin DOMAIN state.sites) =>
            LET rec == state'.sites[slug_of(t)]
            IN  /\ pc'[t] = "append"
                /\ OtherRecordsKept(state, state', slug_of(t))
                /\ state'.items = state.items
                /\ rec.first_seen = locals[t].now_iso
                /\ rec.last_change = rec.first_seen
                /\ rec.last_checked = rec.first_seen
                /\ rec.current_content = locals[t].display_text
                /\ rec.previous_content = <<>>
                /\ rec.hash = locals[t].h
       /\ (LeavesAppend(t) /\ locals[t].branch = "first") =>
            LET last == state'.items[Len(state'.items)]
            IN  /\ state'.items = Append(state.items, last)
                /\ state'.sites = state.sites
                /\ last.slug = slug_of(t)
                /\ last.first_seen = state.sites[slug_of(t)].first_seen
                /\ last.aenderungen_html = Notice("Erste Erfassung - Monitoring gestartet.")
                /\ results'[t] = "dict"]_vars

\* C3 witness: a first sighting has just been recorded while an earlier event
\* of another site was already in the history.
C3_Witness ==
  \E t \in Sites :
    /\ mainpc = "gather"
    /\ pc[t] = "done"
    /\ results[t] = "dict"
    /\ Len(state.items) >= 2
    /\ state.items[Len(state.items)].slug = slug_of(t)
    /\ state.items[Len(state.items)].aenderungen_html
         = Notice("Erste Erfassung - Monitoring gestartet.")
    /\ state.items[1].slug # slug_of(t)
    /\ state.sites[slug_of(t)].first_seen = state.sites[slug_of(t)].last_checked
    /\ state.sites[slug_of(t)].previous_content = <<>>

\* C4: every append of an event, by the first-sighting branch as by the
\* update branch, leaves the history as the newest ItemsCap events in their
\* order (the oldest dropped first), so that no history in memory and no
\* document at the state path holds more than ItemsCap events.
C4_HistoryTruncatedAfterEveryAppend ==
  [][/\ \A t \in Sites :
          LeavesAppend(t) =>
            state'.items =
              LastItems(Append(state.items, state'.items[Len(state'.items)]), ItemsCap)
     /\ Len(state'.items) <= ItemsCap
     /\ Len(fs'[state_path].doc.items) <= ItemsCap]_vars

\* C4, where it breaks: a document with more than ItemsCap events is on disk.
C4_OverlongHistorySaved ==
  /\ fs[state_path].kind = "text"
  /\ Len(fs[state_path].doc.items) > ItemsCap

\* C5: a run that starts with a missing, unreadable or malformed state file
\* goes on with the empty document: main() never ends on the state file, and
\* what load_state hands to the run is the stored document or, when there is
\* none to read, the empty one.
C5_BadStateFileGivesEmptyDocument ==
  [][mainpc = "idle" /\ mainpc' # "idle" =>
       /\ mainpc' = "gather"
       /\ loaded' = IF fs[state_path].kind = "text" THEN fs[state_path].doc ELSE EmptyDoc
       /\ state' = loaded']_vars

\* C5, where it breaks: main() has ended with the exception load_state let
\* through.
C5_RunAbortedOnStateFile ==
  /\ mainpc = "aborted"
  /\ fs[state_path].kind \in {"garbage", "unreadable"}

\* C6: whatever the step at which the process dies in save_state, the file
\* at the state path is a complete document: each step of a run leaves it as
\* it was or puts the complete new document there, it never holds a part of
\* one, and the run that follows loads exactly the document it holds.
C6_StatePathHoldsOldOrNewCompleteDocument ==
  /\ [][mainpc # "idle" =>
          fs'[state_path] \in {fs[state_path], File("text", state, NChunks)}]_vars
  /\ [](fs[state_path].kind = "text" => fs[state_path].written = NChunks)
  /\ [][(mainpc = "idle" /\ mainpc' = "gather" /\ fs[state_path].kind = "text") =>
          loaded' = fs[state_path].doc]_vars

\* C6 witness: the process died while writing a new document; the part it
\* wrote lies at the temporary path, and the run after it has loaded the
\* complete document saved before, which differs from it.
C6_Witness ==
  /\ mainpc = "gather"
  /\ fs[tmp_path(state_path)].kind = "text"
  /\ fs[tmp_path(state_path)].written < NChunks
  /\ fs[state_path].kind = "text"
  /\ loaded = fs[state_path].doc
  /\ loaded # fs[tmp_path(state_path)].doc

\* s holds sub as a contiguous part.
Contains(s, sub) ==
  \E i \in 1..(Len(s) - Len(sub) + 1) : SubSeq(s, i, i + Len(sub) - 1) = sub

\* C7: for every fragment that holds the terminator "]]>", what cdata_wrap
\* returns reads, as the content of a description element, as well-formed
\* CDATA sections and nothing else: the reader ends outside a section only at
\* the final terminator, and no token of the fragment lies outside a section.
C7_TerminatorInFragmentStaysInsideCData ==
  (cdpc = "done" /\ Contains(payload, CDataEnd)) =>
    /\ ReadDescription(wrapped).ok
    /\ ReadDescription(wrapped).outside = 0

\* C7, where it breaks: the fragment "]]>" on the path of line 227 (the parser
\* step raised and the raw string is kept) comes back with a "<![C DATA["
\* after the first terminator.
C7_ContainerCutShort ==
  /\ cdpc = "done"
  /\ ~parsed
  /\ payload = CDataEnd
  /\ wrapped = <<CDataOpen, "]", "]", "]", "]", ">", "<![C DATA[", ">", "]", "]", ">">>
  /\ ~ReadDescription(wrapped).ok

\* The run in which the clock showed ts: the number of runs started by then.
RunOf(ts) == Cardinality({i \in 1..Len(runStarts) : runStarts[i] <= ts})

\* C8: in every per-site feed and every region feed, an entry detected in a
\* later run stands before every entry detected in an earlier run.
C8_FeedsListLaterRunsFirst ==
  \A kind \in {"site", "region"} :
    \A f \in DOMAIN feeds[kind] :
      \A i, j \in 1..Len(feeds[kind][f]) :
        i < j => RunOf(feeds[kind][f][i].description.checked_at)
                   >= RunOf(feeds[kind][f][j].description.checked_at)

\* C8, where it breaks: a site's feed lists the initial capture ahead of an
\* update detected in a later run.
C8_InitialCaptureAheadOfLaterUpdate ==
  \E f \in DOMAIN feeds.site :
    /\ Len(feeds.site[f]) >= 2
    /\ feeds.site[f][1].description.changes = Notice("Erste Erfassung - Monitoring gestartet.")
    /\ feeds.site[f][2].description.changes # Notice("Erste Erfassung - Monitoring gestartet.")
    /\ RunOf(feeds.site[f][1].description.checked_at)
         < RunOf(feeds.site[f][2].description.checked_at)

\* The tasks between their await and their return.
InFlight == {t \in Sites : pc[t] \in {"detect", "append"}}

\* The document after the first n fetches of ord were processed one at a
\* time, each from the return of its fetch to the return of its task.
RECURSIVE ApplyInOrder(_, _, _)
ApplyInOrder(doc, ord, n) ==
  IF n = 0 THEN doc
  ELSE ProcessSiteAtomic(ApplyInOrder(doc, ord, n - 1), ord[n].site, ord[n].html_text,
                         ord[n].checked_at, ord[n].now_iso)

\* C9: at most one task is between the return of its fetch and its own
\* return, it is the one the loop runs, and whenever no task is there the
\* document is what the tasks, applied one at a time in the order their
\* fetches completed, make of the document the run loaded.
C9_OneMutationInFlightNoLostUpdate ==
  /\ Cardinality(InFlight) <= 1
  /\ \A t \in InFlight : running = t
  /\ (mainpc \in {"gather", "save_write", "feeds"} /\ InFlight = {}) =>
       state = ApplyInOrder(loaded, order, Len(order))

\* C9 witness: both tasks of a run have detected a change and returned, the
\* fetch of the second configured site having completed first.
C9_Witness ==
  /\ mainpc = "gather"
  /\ AllDone
  /\ \A t \in Sites : results[t] = "dict"
  /\ Len(order) = 2
  /\ order[1].site = "s2"
  /\ order[2].site = "s1"
  /\ Len(loaded.items) >= 1
  /\ Len(state.items) = ItemsCap

\* The fetch of t has failed in the current run: the task is done without a
\* result and without a place in the order of the completed fetches.
FetchFailedFor(t) ==
  /\ mainpc = "gather"
  /\ pc[t] = "done"
  /\ results[t] = "None"
  /\ \A i \in 1..Len(order) : order[i].site # t

\* C10: the step on which the fetch of a site fails leaves the document, the
\* files and the other tasks as they were and makes the task return None;
\* the document the run then saves is the loaded one with the results of
\* the other tasks applied and the failed site's record as it was loaded;
\* and a run in which a fetch failed still goes through save_state and
\* generate_feeds_from_state to its end.
C10_FailedFetchSkipsSiteAndRunCompletes ==
  /\ [][\A t \in Sites :
          (pc[t] = "fetch" /\ pc'[t] = "done") =>
            /\ results'[t] = "None"
            /\ state' = state
            /\ fs' = fs
            /\ feeds' = feeds
            /\ \A u \in Sites \ {t} :
                 /\ pc'[u] = pc[u]
                 /\ results'[u] = results[u]
                 /\ locals'[u] = locals[u]]_vars
  /\ [][(mainpc = "gather" /\ mainpc' = "save_write") =>
          /\ state = ApplyInOrder(loaded, order, Len(order))
          /\ fs'[tmp_path(state_path)].doc = state
          /\ \A t \in Sites :
               FetchFailedFor(t) =>
                 /\ (slug_of(t) \in DOMAIN state.sites) = (slug_of(t) \in DOMAIN loaded.sites)
                 /\ slug_of(t) \in DOMAIN state.sites =>
                      state.sites[slug_of(t)] = loaded.sites[slug_of(t)]
                 /\ \A i \in 1..Len(state.items) :
                      state.items[i].slug = slug_of(t) =>
                        \E j \in 1..Len(loaded.items) : loaded.items[j] = state.items[i]]_vars
  /\ [][(mainpc # "idle" /\ mainpc' = "idle") =>
          /\ mainpc = "feeds"
          /\ fs[state_path] = File("text", state, NChunks)
          /\ feeds' = generate_feeds_from_state(state, feeds, now + 1)]_vars
  /\ (\E t \in Sites : FetchFailedFor(t)) ~> (mainpc = "idle")

\* C10 witness: in a run that loaded records of both sites, the fetch of one
\* has failed and the task of the other has detected a change and returned.
C10_Witness ==
  \E t \in Sites :
    /\ FetchFailedFor(t)
    /\ slug_of(t) \in DOMAIN loaded.sites
    /\ state.sites[slug_of(t)] = loaded.sites[slug_of(t)]
    /\ \E u \in Sites \ {t} :
         /\ results[u] = "dict"
         /\ slug_of(u) \in DOMAIN loaded.sites
         /\ state.sites[slug_of(u)].hash # loaded.sites[slug_of(u)].hash
         /\ state.items # loaded.items
         /\ state.items[Len(state.items)].slug = slug_of(u)

\* The hash extract and make_hash give for the page a display text was
\* taken from (lines 479-482).
HashOfContent(display_text) == make_hash(extract(display_text, 0).hash_text)

\* C11: in the document in memory and in the one at the state path, every
\* record's hash is the hash of the normalised text of the extraction its
\* current_content came from; and every step either leaves both fields of
\* a record as they were or sets both from the one extraction of the task
\* that takes the step.
C11_HashBelongsToCurrentContent ==
  /\ [](\A slug \in DOMAIN state.sites :
          state.sites[slug].hash = HashOfContent(state.sites[slug].current_content))
  /\ [](\A slug \in DOMAIN fs[state_path].doc.sites :
          fs[state_path].doc.sites[slug].hash
            = HashOfContent(fs[state_path].doc.sites[slug].current_content))
  /\ [][mainpc = "gather" /\ mainpc' = "gather" =>
          \A t \in Sites :
            LET slug == slug_of(t)
            IN  slug \in DOMAIN state'.sites =>
                  \/ /\ slug \in DOMAIN state.sites
                     /\ state'.sites[slug].hash = state.sites[slug].hash
                     /\ state'.sites[slug].current_content = state.sites[slug].current_content
                  \/ /\ LeavesDetect(t)
                     /\ state'.sites[slug].hash = locals[t].h
                     /\ state'.sites[slug].current_content = locals[t].display_text
                     /\ state'.sites[slug].hash # HashOfContent(OldContent(state, t, locals[t]))]_vars

\* C11 witness: a record that went through a first sighting and an update
\* has now been found unchanged on a page whose markup differs from the
\* stored content (another session id): hash and content are those of the
\* update.
C11_Witness ==
  \E t \in Sites :
    /\ mainpc = "gather"
    /\ pc[t] = "done"
    /\ results[t] = "None"
    /\ slug_of(t) \in DOMAIN state.sites
    /\ state.sites[slug_of(t)].previous_content # <<>>
    /\ state.sites[slug_of(t)].last_checked > state.sites[slug_of(t)].last_change
    /\ \E i \in 1..Len(order) :
         /\ order[i].site = t
         /\ order[i].html_text # state.sites[slug_of(t)].current_content
         /\ HashOfContent(order[i].html_text) = state.sites[slug_of(t)].hash

\* The new text's paragraphs are those of the old text, of which there is at
\* least one, followed by at least one more.
ParagraphsAppended(old_text, new_text) ==
  LET old_pars == split_paragraphs(old_text)
      new_pars == split_paragraphs(new_text)
  IN  /\ Len(old_pars) >= 1
      /\ Len(new_pars) > Len(old_pars)
      /\ SubSeq(new_pars, 1, Len(old_pars)) = old_pars

\* C12: when the paragraphs of the new text are those of the old text
\* followed by further ones, the fragment added_paragraphs_html returns is
\* made of exactly the further paragraphs, in their order and as they stand
\* in the new text (not normalised), and of nothing else.
C12_AppendedParagraphsAreTheAddedFragment ==
  (diffpc = "done" /\ ParagraphsAppended(diff_old, diff_new)) =>
    diff_added =
      paragraphs_to_html(SubSeq(split_paragraphs(diff_new),
                                Len(split_paragraphs(diff_old)) + 1,
                                Len(split_paragraphs(diff_new))))

\* C12 witness: the old text is 'A, B', the new one 'A, B' and a third
\* paragraph whose normalised form is that of the first; the fragment is
\* the third paragraph with its own id.
C12_Witness ==
  /\ diffpc = "done"
  /\ diff_old = <<NodeA1, NodeB>>
  /\ diff_new = <<NodeA1, NodeB, NodeA2>>
  /\ diff_added = <<[tag |-> "p", text |-> "A", tech |-> "id2"]>>

\* The events of the document that the current run appended.
AppendedThisRun(doc) ==
  {i \in 1..Len(doc.items) : doc.items[i].checked_at >= runStarts[Len(runStarts)]}

\* ev has an entry in the feed file f of the kind given.
InFeed(files, kind, f, ev) ==
  /\ f \in DOMAIN files[kind]
  /\ \E k \in 1..Len(files[kind][f]) : files[kind][f][k] = RssItem(ev)

\* C13: when generate_feeds_from_state has written the feeds of a run,
\* every event the run appended for a configured site has an entry in the
\* feed of its site and in the feed of its region.
C13_EventsOfTheRunAreInItsFeeds ==
  [][(mainpc = "feeds" /\ mainpc' = "idle") =>
       \A i \in AppendedThisRun(state) :
         state.items[i].slug \in active_slugs =>
           /\ InFeed(feeds', "site", state.items[i].slug, state.items[i])
           /\ InFeed(feeds', "region", slugify(state.items[i].bundesland), state.items[i])]_vars

\* C13, where it breaks: the last run detected an update of a site and saved
\* its event, and the feed of the site, generated by that run, has no entry
\* for it.
C13_UpdateOfTheRunMissingFromFeeds ==
  /\ mainpc = "idle"
  /\ fs[state_path].kind = "text"
  /\ \E i \in AppendedThisRun(fs[state_path].doc) :
       LET ev == fs[state_path].doc.items[i]
       IN  /\ ev.slug \in active_slugs
           /\ ev.first_seen < ev.checked_at - feed_retention_days
           /\ ~InFeed(feeds, "site", ev.slug, ev)
           /\ ~InFeed(feeds, "region", slugify(ev.bundesland), ev)

\* C14: in every generated feed, the entries of two events carry different
\* guids.
C14_GuidsDifferWithinAFeed ==
  \A kind \in {"site", "region"} :
    \A f \in DOMAIN feeds[kind] :
      \A i, j \in 1..Len(feeds[kind][f]) :
        i # j => feeds[kind][f][i].guid # feeds[kind][f][j].guid

\* C14, where it breaks: a site's feed holds the entry of the initial
\* capture and the entry of an update detected in a later run, both under
\* the guid made of the slug and the site's first_seen.
C14_InitialCaptureAndUpdateShareGuid ==
  \E f \in DOMAIN feeds.site :
    \E i, j \in 1..Len(feeds.site[f]) :
      /\ feeds.site[f][i].description.changes
           = Notice("Erste Erfassung - Monitoring gestartet.")
      /\ feeds.site[f][j].description.changes
           # Notice("Erste Erfassung - Monitoring gestartet.")
      /\ feeds.site[f][j].description.checked_at > feeds.site[f][i].description.checked_at
      /\ feeds.site[f][i].guid = feeds.site[f][j].guid
      /\ feeds.site[f][i].guid = <<f, feeds.site[f][i].description.first_seen>>

====
